---- MODULE Spec2Model ----
(***************************************************************************)
(* Model of convert_midnight_to_noctisium.py: the Midnight Log CSV to      *)
(* Noctisium Echo AI Metrics converter.                                    *)
(*                                                                         *)
(* Text is a sequence of one-character strings, so that strip, split,      *)
(* replace and strptime are computed character by character.  Positions    *)
(* in rows and in col_map are Python's (0-based); Cell(row, i) reads       *)
(* row[i].                                                                 *)
(***************************************************************************)
EXTENDS Integers, Sequences, FiniteSets, TLC

VARIABLES
    rows,            \* rows = list(reader): the input table
    pc,              \* position in the running function
    header_row_idx,  \* index of the header row, -1 for None
    col_map,         \* header label -> position
    cursor,          \* index in rows of the row the for loop takes next
    output_rows,     \* the list written at the end
    out_file,        \* content of the output file, NotWritten until opened
    stdout,          \* the lines printed
    parsed,          \* history: indices of the rows whose Date cell was read
    emitted_from,    \* history: source row index of each emitted output row
    fn_in,           \* argument of the pure function under test
    fn_out           \* results of its successive applications

vars == <<rows, pc, header_row_idx, col_map, cursor, output_rows, out_file,
          stdout, parsed, emitted_from, fn_in, fn_out>>

----------------------------------------------------------------------------
(* Bounds of the model *)

MaxRows == 4
MaxCols == 4
MaxTimeLen == 4
MaxDateTokens == 5

----------------------------------------------------------------------------
(* Python values *)

None == [some |-> FALSE, text |-> <<>>]
Some(s) == [some |-> TRUE, text |-> s]

\* str.strip() with no argument removes these (the ones the model draws from)
Whitespace == {" ", "\t", "\n", "\r"}

Cell(row, i) == row[i + 1]

Contains(s, c) == \E i \in 1..Len(s) : s[i] = c

InSeq(x, s) == \E i \in 1..Len(s) : s[i] = x

\* s.strip() == ''
IsBlank(s) == \A i \in 1..Len(s) : s[i] \in Whitespace

RECURSIVE LStrip(_)
LStrip(s) ==
    IF s # <<>> /\ Head(s) \in Whitespace THEN LStrip(Tail(s)) ELSE s

RECURSIVE RStrip(_)
RStrip(s) ==
    IF s # <<>> /\ s[Len(s)] \in Whitespace
    THEN RStrip(SubSeq(s, 1, Len(s) - 1))
    ELSE s

Strip(s) == RStrip(LStrip(s))

\* s.replace(' ', '')
ReplaceSpace(s) == SelectSeq(s, LAMBDA c : c # " ")

\* s.split(sep): the segments between the occurrences of sep
RECURSIVE SplitFrom(_, _, _, _)
SplitFrom(s, sep, i, cur) ==
    IF i > Len(s) THEN <<cur>>
    ELSE IF s[i] = sep THEN <<cur>> \o SplitFrom(s, sep, i + 1, <<>>)
    ELSE SplitFrom(s, sep, i + 1, Append(cur, s[i]))

Split(s, sep) == SplitFrom(s, sep, 1, <<>>)

----------------------------------------------------------------------------
(* parse_time *)

parse_time_PadEmptyHour(time_str) ==
    IF time_str = <<>> \/ IsBlank(time_str) THEN None
    ELSE LET t == ReplaceSpace(Strip(time_str))
         IN  IF Contains(t, ":") /\ Len(Split(t, ":")[1]) <= 1
             THEN Some(<<"0">> \o t)
             ELSE Some(t)

parse_time(time_str) ==
    IF time_str = <<>> \/ IsBlank(time_str) THEN None
    ELSE LET t == ReplaceSpace(Strip(time_str))
         IN  IF Contains(t, ":") /\ Len(Split(t, ":")[1]) = 1
             THEN Some(<<"0">> \o t)
             ELSE Some(t)

----------------------------------------------------------------------------
(* parse_date: datetime.strptime(f"{date_str} 2025", "%b %d %Y") followed  *)
(* by strftime("%Y-%m-%d")                                                 *)

Digits == <<"0", "1", "2", "3", "4", "5", "6", "7", "8", "9">>
IsDigit(c) == InSeq(c, Digits)
DigitVal(c) == (CHOOSE i \in 1..10 : Digits[i] = c) - 1

UpperCase == <<"A", "B", "C", "D", "E", "F", "G", "H", "I", "J", "K", "L", "M",
               "N", "O", "P", "Q", "R", "S", "T", "U", "V", "W", "X", "Y", "Z">>
LowerCase == <<"a", "b", "c", "d", "e", "f", "g", "h", "i", "j", "k", "l", "m",
               "n", "o", "p", "q", "r", "s", "t", "u", "v", "w", "x", "y", "z">>
LowerChar(c) ==
    IF InSeq(c, UpperCase)
    THEN LowerCase[CHOOSE i \in 1..26 : UpperCase[i] = c]
    ELSE c
Lower(s) == [i \in 1..Len(s) |-> LowerChar(s[i])]

\* %b in the C locale, as strptime compares it (lower-cased)
MonthAbbr == << <<"j", "a", "n">>, <<"f", "e", "b">>, <<"m", "a", "r">>,
                <<"a", "p", "r">>, <<"m", "a", "y">>, <<"j", "u", "n">>,
                <<"j", "u", "l">>, <<"a", "u", "g">>, <<"s", "e", "p">>,
                <<"o", "c", "t">>, <<"n", "o", "v">>, <<"d", "e", "c">> >>

\* days of each month of 2025, which datetime() enforces
DaysInMonth == <<31, 28, 31, 30, 31, 30, 31, 31, 30, 31, 30, 31>>

\* number of whitespace characters of data from position p on (\s+, greedy)
RECURSIVE WsRun(_, _)
WsRun(data, p) ==
    IF p <= Len(data) /\ data[p] \in Whitespace THEN 1 + WsRun(data, p + 1) ELSE 0

\* \s+(?P<Y>\d\d\d\d) from position q: the position after the match, 0 if none
MatchYear(data, q) ==
    LET w == WsRun(data, q)
        y == q + w
    IN  IF w >= 1 /\ y + 3 <= Len(data)
           /\ \A k \in 0..3 : IsDigit(data[y + k])
        THEN y + 4
        ELSE 0

\* (?P<d>3[0-1]|[1-2]\d|0[1-9]|[1-9]| [1-9]) tried in this order after the
\* greedy \s+ that ends before position p; each entry is <<start, length>>
DayAlternatives(data, p, w) ==
    LET at(i) == IF i >= 1 /\ i <= Len(data) THEN data[i] ELSE ""
        a1 == IF at(p) = "3" /\ at(p + 1) \in {"0", "1"} THEN << <<p, 2>> >> ELSE <<>>
        a2 == IF at(p) \in {"1", "2"} /\ IsDigit(at(p + 1)) THEN << <<p, 2>> >> ELSE <<>>
        a3 == IF at(p) = "0" /\ IsDigit(at(p + 1)) /\ at(p + 1) # "0"
              THEN << <<p, 2>> >> ELSE <<>>
        a4 == IF IsDigit(at(p)) /\ at(p) # "0" THEN << <<p, 1>> >> ELSE <<>>
        a5 == IF w >= 2 /\ at(p - 1) = " " /\ IsDigit(at(p)) /\ at(p) # "0"
              THEN << <<p - 1, 2>> >> ELSE <<>>
    IN  a1 \o a2 \o a3 \o a4 \o a5

\* int() of the characters the d group matched
DayValue(data, alt) ==
    LET txt == SelectSeq(SubSeq(data, alt[1], alt[1] + alt[2] - 1), IsDigit)
    IN  IF Len(txt) = 2 THEN 10 * DigitVal(txt[1]) + DigitVal(txt[2])
        ELSE DigitVal(txt[1])

\* strptime(data, "%b %d %Y"): <<month, day>> of the date, <<>> for ValueError
Strptime(data) ==
    LET month == IF Len(data) >= 3 /\ InSeq(Lower(SubSeq(data, 1, 3)), MonthAbbr)
                 THEN CHOOSE m \in 1..12 : MonthAbbr[m] = Lower(SubSeq(data, 1, 3))
                 ELSE 0
        w     == WsRun(data, 4)
        alts  == DayAlternatives(data, 4 + w, w)
        ok    == SelectSeq(alts, LAMBDA a : MatchYear(data, a[1] + a[2]) # 0)
    IN  IF month = 0 \/ w = 0 \/ ok = <<>> THEN <<>>
        ELSE LET a   == ok[1]
                 day == DayValue(data, a)
             IN  IF MatchYear(data, a[1] + a[2]) # Len(data) + 1 THEN <<>>
                 ELSE IF day > DaysInMonth[month] THEN <<>>
                 ELSE <<month, day>>

TwoDigits(n) == <<Digits[(n \div 10) + 1], Digits[(n % 10) + 1]>>

\* strftime("%Y-%m-%d") of a date of 2025
Strftime(md) ==
    <<"2", "0", "2", "5", "-">> \o TwoDigits(md[1]) \o <<"-">> \o TwoDigits(md[2])

Year2025 == <<" ", "2", "0", "2", "5">>

parse_date_RestAfterComma(date_str) ==
    IF date_str = <<>> \/ IsBlank(date_str) THEN None
    ELSE LET s0 == Strip(date_str)
             i  == CHOOSE k \in 1..Len(s0) :
                       s0[k] = "," /\ \A j \in 1..(k - 1) : s0[j] # ","
             s1 == IF Contains(s0, ",")
                   THEN Strip(SubSeq(s0, i + 1, Len(s0)))
                   ELSE s0
             md == Strptime(s1 \o Year2025)
         IN  IF md = <<>> THEN None ELSE Some(Strftime(md))

parse_date(date_str) ==
    IF date_str = <<>> \/ IsBlank(date_str) THEN None
    ELSE LET s0 == Strip(date_str)
             s1 == IF Contains(s0, ",") THEN Strip(Split(s0, ",")[2]) ELSE s0
             md == Strptime(s1 \o Year2025)
         IN  IF md = <<>> THEN None ELSE Some(Strftime(md))

----------------------------------------------------------------------------
(* convert_to_noctisium_format: the literals it compares cells with        *)

DateLabel == <<"D", "a", "t", "e">>
WakeTimeLabel == <<"W", "a", "k", "e", " ", "T", "i", "m", "e">>
HRVLabel == <<"H", "R", "V">>
CaloriesLabel == <<"C", "a", "l", "o", "r", "i", "e", "s">>
DeepWorkLabel == <<"D", "e", "e", "p", " ", "W", "o", "r", "k", " ", "(", "h", "r", "s", ")">>
RecoveryLabel == <<"R", "e", "c", "o", "v", "e", "r", "y">>
SleepTimeLabel == <<"S", "l", "e", "e", "p", " ", "T", "i", "m", "e">>
ColdShowerLabel == <<"C", "o", "l", "d", " ", "S", "h", "o", "w", "e", "r">>
NoDopamineLabel == <<"N", "o", " ", "D", "o", "p", "a", "m", "i", "n", "e">>
SleepHoursLabel == <<"S", "l", "e", "e", "p", " ", "(", "h", "r", "s", ")">>
WeightLabel == <<"W", "e", "i", "g", "h", "t">>
WaterLabel == <<"W", "a", "t", "e", "r">>
ReadingLabel == <<"R", "e", "a", "d", "i", "n", "g">>
ProteinLabel == <<"P", "r", "o", "t", "e", "i", "n">>
TrainingLabel == <<"T", "r", "a", "i", "n", "i", "n", "g">>
BREAK == <<"B", "R", "E", "A", "K">>
NIGHTMARE == <<"N", "I", "G", "H", "T", "M", "A", "R", "E">>
AvgOrSum == <<"A", "V", "G", " ", "O", "R", " ", "S", "U", "M">>

user_id == "0b3c6a14-8d1e-4ca4-b44f-8b89980bc61b"

OutHeader == <<"user_id", "date", "data">>

NotWritten == <<"not written">>

HeaderNotFoundMsg == <<"Could not find header row">>
CompleteMsg == <<"Conversion complete! Output saved to output_file">>
TotalMsg(n) == <<"Total data rows converted:", n>>

----------------------------------------------------------------------------
(* JSON values of the data dictionary, as json.dumps writes them           *)

JNull == [type |-> "null", text |-> <<"n", "u", "l", "l">>]
JStr(s) == [type |-> "string", text |-> s]
JBool(b) == [type |-> "boolean",
             text |-> IF b THEN <<"t", "r", "u", "e">> ELSE <<"f", "a", "l", "s", "e">>]

----------------------------------------------------------------------------
(* Header detection and the column map                                     *)

IsHeaderRow(row) ==
    Len(row) > 2 /\ InSeq(DateLabel, row) /\ InSeq(WakeTimeLabel, row)

\* the loop of lines 56-59 from index i on: the first header row, -1 for None
RECURSIVE FindHeaderFrom(_, _)
FindHeaderFrom(table, i) ==
    IF i >= Len(table) THEN -1
    ELSE IF IsHeaderRow(Cell(table, i)) THEN i
    ELSE FindHeaderFrom(table, i + 1)

RECURSIVE FindHeaderFrom_DefaultFirst(_, _)
FindHeaderFrom_DefaultFirst(table, i) ==
    IF i >= Len(table) THEN 0
    ELSE IF IsHeaderRow(Cell(table, i)) THEN i
    ELSE FindHeaderFrom_DefaultFirst(table, i + 1)

FindHeader_DefaultFirst(table) ==
    IF table = <<>> THEN -1 ELSE FindHeaderFrom_DefaultFirst(table, 0)

FindHeader(table) == FindHeaderFrom(table, 0)

\* col_map[header] = i
Put(m, k, v) == [x \in (DOMAIN m) \cup {k} |-> IF x = k THEN v ELSE m[x]]

\* the loop of lines 69-71 from position i on
RECURSIVE ScanHeaders(_, _, _)
ScanHeaders(headers, i, m) ==
    IF i >= Len(headers) THEN m
    ELSE ScanHeaders(headers, i + 1,
                     IF Cell(headers, i) # <<>> THEN Put(m, Cell(headers, i), i) ELSE m)

RECURSIVE ScanHeaders_KeepFirst(_, _, _)
ScanHeaders_KeepFirst(headers, i, m) ==
    IF i >= Len(headers) THEN m
    ELSE ScanHeaders_KeepFirst(headers, i + 1,
                     IF Cell(headers, i) # <<>> /\ Cell(headers, i) \notin DOMAIN m
                     THEN Put(m, Cell(headers, i), i) ELSE m)

BuildColMap_KeepFirst(headers) == ScanHeaders_KeepFirst(headers, 0, <<>>)

BuildColMap(headers) == ScanHeaders(headers, 0, <<>>)

----------------------------------------------------------------------------
(* One iteration of the loop over the data rows                            *)

Excluded_NoAvgOrSum(row) ==
    IF Len(row) < 2 THEN TRUE
    ELSE Cell(row, 1) = <<>> \/ Cell(row, 0) \in {BREAK, NIGHTMARE}

\* line 76
Excluded(row) ==
    IF Len(row) < 2 THEN TRUE
    ELSE \/ Cell(row, 1) = <<>>
         \/ Cell(row, 0) \in {BREAK, NIGHTMARE}
         \/ Cell(row, 1) = AvgOrSum

\* col_map.get('Date', 1)
DateIndex(m) == IF DateLabel \in DOMAIN m THEN m[DateLabel] ELSE 1

HasData_NoStrip(row) ==
    \E i \in 2..(Len(row) - 1) : Cell(row, i) # <<>>

\* lines 85-89
HasData(row) ==
    \E i \in 2..(Len(row) - 1) : Cell(row, i) # <<>> /\ Strip(Cell(row, i)) # <<>>

\* 'X' in col_map and len(row) > col_map['X']
Reaches(row, m, label) == label \in DOMAIN m /\ Len(row) > m[label]

\* the plain fields: the cell, None when it is missing or empty
StrField(row, m, label) ==
    IF Reaches(row, m, label) /\ Cell(row, m[label]) # <<>>
    THEN JStr(Cell(row, m[label]))
    ELSE JNull

\* sleepTime, wakingTime
TimeField(row, m, label) ==
    IF Reaches(row, m, label) /\ Cell(row, m[label]) # <<>>
    THEN LET t == parse_time(Cell(row, m[label]))
         IN  IF t.some /\ t.text # <<>> THEN JStr(t.text) ELSE JNull
    ELSE JNull

BoolField_EmptyIsFalse(row, m, label) ==
    IF Reaches(row, m, label)
    THEN JBool(Cell(row, m[label]) = <<"1">>)
    ELSE JNull

\* coldShower, noDopamine
BoolField(row, m, label) ==
    IF Reaches(row, m, label) /\ Cell(row, m[label]) # <<>>
    THEN JBool(Cell(row, m[label]) = <<"1">>)
    ELSE JNull

ThreeWayField_EmptyIsNull(row, m, label) ==
    IF Reaches(row, m, label) /\ Cell(row, m[label]) # <<>>
    THEN JStr(Cell(row, m[label]))
    ELSE JNull

\* readingHours, jiuJitsuSessions
ThreeWayField(row, m, label) ==
    IF Reaches(row, m, label)
    THEN IF Cell(row, m[label]) = <<>> THEN JStr(<<>>)
         ELSE IF Cell(row, m[label]) # <<>> THEN JStr(Cell(row, m[label]))
         ELSE JNull
    ELSE JNull

\* the data dictionary in insertion order, which json.dumps keeps
AllFields(row, m) ==
    << <<"hrv", StrField(row, m, HRVLabel)>>,
       <<"calories", StrField(row, m, CaloriesLabel)>>,
       <<"deepWork", StrField(row, m, DeepWorkLabel)>>,
       <<"recovery", StrField(row, m, RecoveryLabel)>>,
       <<"sleepTime", TimeField(row, m, SleepTimeLabel)>>,
       <<"coldShower", BoolField(row, m, ColdShowerLabel)>>,
       <<"noDopamine", BoolField(row, m, NoDopamineLabel)>>,
       <<"sleepHours", StrField(row, m, SleepHoursLabel)>>,
       <<"wakingTime", TimeField(row, m, WakeTimeLabel)>>,
       <<"dailyWeight", StrField(row, m, WeightLabel)>>,
       <<"waterIntake", StrField(row, m, WaterLabel)>>,
       <<"readingHours", ThreeWayField(row, m, ReadingLabel)>>,
       <<"proteinIntake", StrField(row, m, ProteinLabel)>>,
       <<"jiuJitsuSessions", ThreeWayField(row, m, TrainingLabel)>>,
       <<"weightliftingSessions", JStr(<<>>)>> >>

BuildData_OmitNone(row, m) ==
    SelectSeq(AllFields(row, m), LAMBDA kv : kv[2] # JNull)

\* lines 96-206
BuildData(row, m) == AllFields(row, m)

----------------------------------------------------------------------------
(* The input tables the model draws from                                   *)

Empty == <<>>
Blank == <<" ">>
One == <<"1">>
Zero == <<"0">>
Apr2 == <<"A", "p", "r", " ", "2">>
MonApr9 == <<"M", "o", "n", ",", " ", "A", "p", "r", " ", "9">>
Apr0 == <<"A", "p", "r", " ", "0">>
Time648 == <<"6", ":", "4", "8", " ">>

\* header rows, and rows that only look like one
HeaderRows ==
    { <<DateLabel, WakeTimeLabel, ColdShowerLabel, ReadingLabel>>,
      <<TrainingLabel, DateLabel, NoDopamineLabel, WakeTimeLabel>>,
      <<WakeTimeLabel, ColdShowerLabel, DateLabel, ColdShowerLabel>>,
      <<DateLabel, WakeTimeLabel>>,
      <<Empty, DateLabel, Empty>> }

\* rows of a log: tracked days, markers, aggregates, blanks
LogRows ==
    { <<Apr2, Time648, One, Empty>>,
      <<MonApr9, Time648, Empty, One>>,
      <<NIGHTMARE, Apr2, Apr2, One>>,
      <<Apr2, Apr0, Apr2, One>>,
      <<Apr2, Apr2, Blank, Empty>> }

\* the header rows a long table may hold
LongHeaderRows ==
    { <<DateLabel, WakeTimeLabel, ColdShowerLabel, ReadingLabel>>,
      <<WakeTimeLabel, ColdShowerLabel, DateLabel, ColdShowerLabel>>,
      <<DateLabel, WakeTimeLabel>> }

\* tables of up to MaxRows rows of the two kinds
LongTables == UNION {[1..n -> LongHeaderRows \cup LogRows] : n \in 0..MaxRows}

\* a header row followed by one row of up to MaxCols arbitrary cells
WideCells == {Empty, Blank, One, Zero, Apr2, BREAK, AvgOrSum}
WideRows == UNION {[1..n -> WideCells] : n \in 0..MaxCols}
WideTables == {<<h, r>> : h \in HeaderRows, r \in WideRows}

----------------------------------------------------------------------------
(* convert_to_noctisium_format as a state machine                          *)

Init ==
    /\ rows \in LongTables \cup WideTables
    /\ pc = "start"
    /\ header_row_idx = -1
    /\ col_map = <<>>
    /\ cursor = 0
    /\ output_rows = <<OutHeader>>
    /\ out_file = NotWritten
    /\ stdout = <<>>
    /\ parsed = {}
    /\ emitted_from = <<>>
    /\ fn_in = <<>>
    /\ fn_out = <<>>

\* lines 54-71: the header row is found and col_map built from it
HeaderFound ==
    /\ pc = "start"
    /\ FindHeader(rows) # -1
    /\ header_row_idx' = FindHeader(rows)
    /\ col_map' = BuildColMap(Cell(rows, FindHeader(rows)))
    /\ cursor' = FindHeader(rows) + 1
    /\ pc' = "loop"
    /\ UNCHANGED <<rows, output_rows, out_file, stdout, parsed, emitted_from,
                   fn_in, fn_out>>

\* lines 61-63
HeaderNotFound ==
    /\ pc = "start"
    /\ FindHeader(rows) = -1
    /\ stdout' = Append(stdout, HeaderNotFoundMsg)
    /\ pc' = "returned"
    /\ UNCHANGED <<rows, header_row_idx, col_map, cursor, output_rows, out_file,
                   parsed, emitted_from, fn_in, fn_out>>

InLoop == pc = "loop" /\ cursor < Len(rows)

\* lines 76-77: continue
SkipExcluded ==
    /\ InLoop
    /\ Excluded(Cell(rows, cursor))
    /\ cursor' = cursor + 1
    /\ UNCHANGED <<rows, pc, header_row_idx, col_map, output_rows, out_file,
                   stdout, parsed, emitted_from, fn_in, fn_out>>

\* line 80: row[col_map.get('Date', 1)] is past the end of the row; nothing
\* catches the IndexError, which ends the function
RaiseIndexError ==
    /\ InLoop
    /\ ~Excluded(Cell(rows, cursor))
    /\ DateIndex(col_map) >= Len(Cell(rows, cursor))
    /\ pc' = "raised"
    /\ UNCHANGED <<rows, header_row_idx, col_map, cursor, output_rows, out_file,
                   stdout, parsed, emitted_from, fn_in, fn_out>>

DateRead ==
    /\ InLoop
    /\ ~Excluded(Cell(rows, cursor))
    /\ DateIndex(col_map) < Len(Cell(rows, cursor))

DateOf(row, m) == parse_date(Cell(row, DateIndex(m)))

\* not date
NoDate(d) == ~d.some \/ d.text = <<>>

\* lines 80-82: continue
SkipNoDate ==
    /\ DateRead
    /\ NoDate(DateOf(Cell(rows, cursor), col_map))
    /\ parsed' = parsed \cup {cursor}
    /\ cursor' = cursor + 1
    /\ UNCHANGED <<rows, pc, header_row_idx, col_map, output_rows, out_file,
                   stdout, emitted_from, fn_in, fn_out>>

\* lines 84-92: continue
SkipNoData ==
    /\ DateRead
    /\ ~NoDate(DateOf(Cell(rows, cursor), col_map))
    /\ ~HasData(Cell(rows, cursor))
    /\ parsed' = parsed \cup {cursor}
    /\ cursor' = cursor + 1
    /\ UNCHANGED <<rows, pc, header_row_idx, col_map, output_rows, out_file,
                   stdout, emitted_from, fn_in, fn_out>>

\* lines 94-212
EmitRow ==
    /\ DateRead
    /\ ~NoDate(DateOf(Cell(rows, cursor), col_map))
    /\ HasData(Cell(rows, cursor))
    /\ output_rows' = Append(output_rows,
            <<user_id, DateOf(Cell(rows, cursor), col_map).text,
              BuildData(Cell(rows, cursor), col_map)>>)
    /\ emitted_from' = Append(emitted_from, cursor)
    /\ parsed' = parsed \cup {cursor}
    /\ cursor' = cursor + 1
    /\ UNCHANGED <<rows, pc, header_row_idx, col_map, out_file, stdout,
                   fn_in, fn_out>>

\* lines 214-220
WriteOutput ==
    /\ pc = "loop"
    /\ cursor >= Len(rows)
    /\ out_file' = output_rows
    /\ stdout' = stdout \o <<CompleteMsg, TotalMsg(Len(output_rows) - 1)>>
    /\ pc' = "done"
    /\ UNCHANGED <<rows, header_row_idx, col_map, cursor, output_rows, parsed,
                   emitted_from, fn_in, fn_out>>

Next ==
    \/ HeaderFound
    \/ HeaderNotFound
    \/ SkipExcluded
    \/ RaiseIndexError
    \/ SkipNoDate
    \/ SkipNoData
    \/ EmitRow
    \/ WriteOutput

Spec == Init /\ [][Next]_vars

----------------------------------------------------------------------------
(* Claims about convert_to_noctisium_format (under Spec)                   *)

\* the text without any whitespace character
WithoutWhitespace(t) == SelectSeq(t, LAMBDA c : c \notin Whitespace)

\* the data rows emitted so far, and the source row of the k-th of them
DataRows == Tail(output_rows)
SourceRow(k) == Cell(rows, emitted_from[k])
Keys(data) == [i \in 1..Len(data) |-> data[i][1]]
ValueOf(data, key) == data[CHOOSE i \in 1..Len(data) : data[i][1] = key][2]
Emitted == {emitted_from[k] : k \in 1..Len(emitted_from)}

\* the key sequence of spec section 3
Section3Keys ==
    <<"hrv", "calories", "deepWork", "recovery", "sleepTime", "coldShower",
      "noDopamine", "sleepHours", "wakingTime", "dailyWeight", "waterIntake",
      "readingHours", "proteinIntake", "weightliftingSessions">>

\* the same with jiuJitsuSessions before weightliftingSessions
Section3KeysWithJiuJitsu ==
    SubSeq(Section3Keys, 1, 13) \o <<"jiuJitsuSessions", "weightliftingSessions">>

\* C1 (as stated): the key sequence of the data object of every output row
\* is exactly the sequence of spec section 3, no key missing and none extra.
C1_KeysAreSection3 ==
    \A k \in 1..Len(DataRows) : Keys(DataRows[k][3]) = Section3Keys

\* C1 (amended): the key sequence of the data object of every output row is
\* the sequence of spec section 3 with jiuJitsuSessions inserted between
\* proteinIntake and weightliftingSessions: 15 keys, none missing, none
\* extra, in the same order for every row whatever the input row holds.
C1_KeysAreSection3PlusJiuJitsu ==
    \A k \in 1..Len(DataRows) : Keys(DataRows[k][3]) = Section3KeysWithJiuJitsu

\* a row was emitted with a null field and another with that field set
C1_Witness ==
    /\ Len(DataRows) >= 2
    /\ \E j, k \in 1..Len(DataRows) :
          /\ ValueOf(DataRows[j][3], "coldShower") = JNull
          /\ ValueOf(DataRows[k][3], "coldShower") = JBool(TRUE)

\* C2: once the header row is found, no row after it aborts the run: each
\* is emitted or skipped and the output file is written at the end.
C2_NoRowAbortsTheRun ==
    /\ pc # "raised"
    /\ (header_row_idx # -1 /\ pc \notin {"start", "loop"}) => out_file # NotWritten

\* a row has both labels and more than two cells
Qualifies(row) ==
    /\ Len(row) > 2
    /\ \E i \in 1..Len(row) : row[i] = DateLabel
    /\ \E i \in 1..Len(row) : row[i] = WakeTimeLabel

\* C3: when no row qualifies as the header row the function returns before
\* the write step: the output file is never written, no data row is
\* processed, and the only effect is the line "Could not find header row".
C3_NoHeaderNoOutput ==
    (pc # "start" /\ \A i \in 1..Len(rows) : ~Qualifies(rows[i])) =>
        /\ pc = "returned"
        /\ out_file = NotWritten
        /\ stdout = <<HeaderNotFoundMsg>>
        /\ cursor = 0 /\ parsed = {} /\ emitted_from = <<>>
        /\ output_rows = <<OutHeader>>
        /\ header_row_idx = -1 /\ col_map = <<>>

\* the function returned on a table whose rows would otherwise convert
C3_Witness ==
    /\ pc = "returned"
    /\ Len(rows) >= 2
    /\ rows[1] = <<DateLabel, WakeTimeLabel>>
    /\ ~Excluded(rows[2])

\* the position of the Date column: the last cell of the header row that
\* reads Date
LastDate(header) ==
    CHOOSE i \in 0..(Len(header) - 1) :
        /\ Cell(header, i) = DateLabel
        /\ \A j \in (i + 1)..(Len(header) - 1) : Cell(header, j) # DateLabel

\* the row at index i meets none of the exclusion conditions of 4.1
Eligible(i) ==
    LET row == Cell(rows, i)
        at  == LastDate(Cell(rows, header_row_idx))
    IN  /\ i > header_row_idx
        /\ Len(row) >= 2
        /\ row[2] # <<>>
        /\ row[1] # BREAK /\ row[1] # NIGHTMARE
        /\ row[2] # AvgOrSum
        /\ at < Len(row)
        /\ parse_date(row[at + 1]).some
        /\ \E j \in 3..Len(row) : WithoutWhitespace(row[j]) # <<>>

EligibleRows == {i \in 0..(Len(rows) - 1) : Eligible(i)}

\* the elements of a set of numbers in increasing order
RECURSIVE Ascending(_)
Ascending(S) ==
    IF S = {} THEN <<>>
    ELSE LET least == CHOOSE x \in S : \A y \in S : x <= y
         IN  <<least>> \o Ascending(S \ {least})

\* C4: after a successful run the output is the header row followed by
\* exactly one row per eligible source row, in source order, and nothing
\* else; the row count is the number of eligible rows.
C4_OutputIsEligibleRowsInOrder ==
    pc = "done" =>
        /\ Head(out_file) = OutHeader
        /\ Len(out_file) - 1 = Cardinality(EligibleRows)
        /\ emitted_from = Ascending(EligibleRows)
        /\ \A k \in 1..Len(emitted_from) :
              LET row == SourceRow(k)
                  at  == LastDate(Cell(rows, header_row_idx))
              IN  /\ out_file[k + 1][1] = user_id
                  /\ out_file[k + 1][2] = parse_date(row[at + 1]).text

\* a run ended with two rows of different dates written, and a row
\* skipped between them
C4_Witness ==
    /\ pc = "done"
    /\ Len(out_file) = 3
    /\ out_file[2][2] # out_file[3][2]
    /\ emitted_from[2] > emitted_from[1] + 1

\* the row carries one of the markers
Marked(row) ==
    \/ Len(row) >= 1 /\ row[1] \in {BREAK, NIGHTMARE}
    \/ Len(row) >= 2 /\ row[2] = AvgOrSum

\* C5: a row after the header whose cell[0] is BREAK or NIGHTMARE or whose
\* cell[1] is AVG OR SUM gives no output row, whatever else it holds and
\* whatever the header layout; its date is never read or parsed.
C5_MarkedRowsExcluded ==
    \A i \in 0..(Len(rows) - 1) :
        (header_row_idx # -1 /\ i > header_row_idx /\ Marked(Cell(rows, i))) =>
            /\ i \notin parsed
            /\ i \notin Emitted
            /\ ~(pc = "raised" /\ cursor = i)

\* a marked row with a valid date and metrics was passed over
C5_Witness ==
    /\ header_row_idx # -1
    /\ \E i \in (header_row_idx + 1)..(cursor - 1) :
          LET row == Cell(rows, i)
          IN  /\ Marked(row)
              /\ DateIndex(col_map) < Len(row)
              /\ parse_date(Cell(row, DateIndex(col_map))).some
              /\ HasData(row)

\* the cell of the row under the column of that label, if there is one
HasCell(row, label) == label \in DOMAIN col_map /\ col_map[label] < Len(row)
CellUnder(row, label) == row[col_map[label] + 1]

TriState(v, row, label) ==
    /\ v \in {JBool(TRUE), JBool(FALSE), JNull}
    /\ v = JBool(TRUE) <=> (HasCell(row, label) /\ CellUnder(row, label) = <<"1">>)
    /\ v = JBool(FALSE) <=> (/\ HasCell(row, label)
                             /\ CellUnder(row, label) # <<>>
                             /\ CellUnder(row, label) # <<"1">>)
    /\ v = JNull <=> (~HasCell(row, label) \/ CellUnder(row, label) = <<>>)

\* C6: coldShower and noDopamine are tri-state: true iff the column exists,
\* the row reaches it and the cell is exactly "1"; false iff the cell is
\* present, non-empty and not "1"; null iff the column is missing, the row
\* too short or the cell empty.
C6_BooleansAreTriState ==
    \A k \in 1..Len(DataRows) :
        /\ TriState(ValueOf(DataRows[k][3], "coldShower"), SourceRow(k), ColdShowerLabel)
        /\ TriState(ValueOf(DataRows[k][3], "noDopamine"), SourceRow(k), NoDopamineLabel)

\* a row gave false for a "0" cell and null for a column it does not reach
C6_Witness ==
    \E k \in 1..Len(DataRows) :
        /\ ValueOf(DataRows[k][3], "noDopamine") = JBool(FALSE)
        /\ CellUnder(SourceRow(k), NoDopamineLabel) = <<"0">>
        /\ ValueOf(DataRows[k][3], "coldShower") = JNull

ThreeWay(v, row, label) ==
    /\ (HasCell(row, label) /\ CellUnder(row, label) = <<>>) => v = JStr(<<>>)
    /\ (HasCell(row, label) /\ CellUnder(row, label) # <<>>) =>
            v = JStr(CellUnder(row, label))
    /\ label \notin DOMAIN col_map => v = JNull
    /\ HasCell(row, label) => v # JNull

\* C7: readingHours (Reading) and jiuJitsuSessions (Training) follow the
\* three-way rule: column present and cell empty gives the empty string,
\* column present and cell non-empty gives the cell text, column absent
\* gives null; with the column and the cell present the value is never null.
C7_ThreeWayRule ==
    \A k \in 1..Len(DataRows) :
        /\ ThreeWay(ValueOf(DataRows[k][3], "readingHours"), SourceRow(k), ReadingLabel)
        /\ ThreeWay(ValueOf(DataRows[k][3], "jiuJitsuSessions"), SourceRow(k), TrainingLabel)

\* a row gave the empty string for an empty Reading cell
C7_Witness ==
    \E k \in 1..Len(DataRows) :
        /\ HasCell(SourceRow(k), ReadingLabel)
        /\ CellUnder(SourceRow(k), ReadingLabel) = <<>>
        /\ ValueOf(DataRows[k][3], "readingHours") = JStr(<<>>)
        /\ ValueOf(DataRows[k][3], "jiuJitsuSessions") = JNull

HasBothLabels(row) ==
    /\ \E i \in 1..Len(row) : row[i] = DateLabel
    /\ \E i \in 1..Len(row) : row[i] = WakeTimeLabel

\* index of the first row of the table that holds both labels, -1 if none
FirstWithBothLabels ==
    LET hits == {i \in 1..Len(rows) : HasBothLabels(rows[i])}
    IN  IF hits = {} THEN -1 ELSE (CHOOSE i \in hits : \A j \in hits : i <= j) - 1

\* index of the first such row that has more than two cells, -1 if none
FirstQualifying ==
    LET hits == {i \in 1..Len(rows) : Qualifies(rows[i])}
    IN  IF hits = {} THEN -1 ELSE (CHOOSE i \in hits : \A j \in hits : i <= j) - 1

\* col_map holds each label of the header row at its last position, and
\* only rows after the header row are looked at
IndexedFrom(h) ==
    LET header == Cell(rows, h)
    IN  /\ DOMAIN col_map = {header[i] : i \in 1..Len(header)} \ {<<>>}
        /\ \A label \in DOMAIN col_map :
              /\ Cell(header, col_map[label]) = label
              /\ \A j \in (col_map[label] + 1)..(Len(header) - 1) :
                    Cell(header, j) # label
        /\ cursor > h
        /\ \A i \in parsed \cup Emitted : i > h

\* C10 (as stated): the header row is the first row, top-down, holding both
\* "Date" and "Wake Time", with no further condition on it; col_map is built
\* from it, the last occurrence of a label winning, and only the rows after
\* it are considered.
C10_FirstRowWithBothLabels ==
    pc # "start" =>
        /\ header_row_idx = FirstWithBothLabels
        /\ header_row_idx # -1 => IndexedFrom(header_row_idx)

\* C10 (amended): the header row is the first row, top-down, that has more
\* than two cells and holds both "Date" and "Wake Time"; col_map is built
\* from it (empty labels left out), the last occurrence of a label winning,
\* and only the rows after it are considered.
C10_FirstWideRowWithBothLabels ==
    pc # "start" =>
        /\ header_row_idx = FirstQualifying
        /\ header_row_idx # -1 => IndexedFrom(header_row_idx)

\* a two-cell row with both labels was passed over, and the header found
\* after it repeats a label
C10_Witness ==
    /\ pc = "done"
    /\ header_row_idx >= 1
    /\ rows[1] = <<DateLabel, WakeTimeLabel>>
    /\ Cardinality(DOMAIN col_map) < Len(Cell(rows, header_row_idx))
    /\ emitted_from # <<>>

----------------------------------------------------------------------------
(* The pure functions under test: parse_time applied to a text and then to *)
(* its own result, parse_date applied to a text                            *)

TimeAlphabet == {" ", "\t", ":", "6", "1"}
TimeTexts == UNION {[1..n -> TimeAlphabet] : n \in 0..MaxTimeLen}

DateTokens == { <<",">>, <<" ">>, <<"A", "p", "r">>, <<"f", "e", "b">>,
                <<"2">>, <<"9">>, <<"0">> }

RECURSIVE Flatten(_)
Flatten(ts) == IF ts = <<>> THEN <<>> ELSE Head(ts) \o Flatten(Tail(ts))

DateTexts == {Flatten(ts) : ts \in UNION {[1..n -> DateTokens] : n \in 0..MaxDateTokens}}

Idle ==
    /\ rows = <<>>
    /\ header_row_idx = -1
    /\ col_map = <<>>
    /\ cursor = 0
    /\ output_rows = <<>>
    /\ out_file = NotWritten
    /\ stdout = <<>>
    /\ parsed = {}
    /\ emitted_from = <<>>

pipeline_vars == <<rows, header_row_idx, col_map, cursor, output_rows, out_file,
                   stdout, parsed, emitted_from>>

InitTime ==
    /\ Idle
    /\ pc = "time"
    /\ fn_in \in TimeTexts
    /\ fn_out = <<>>

ParseTimeFirst ==
    /\ pc = "time"
    /\ fn_out = <<>>
    /\ fn_out' = <<parse_time(fn_in)>>
    /\ UNCHANGED <<pc, fn_in, pipeline_vars>>

ParseTimeAgain ==
    /\ pc = "time"
    /\ Len(fn_out) = 1
    /\ fn_out[1].some
    /\ fn_out' = Append(fn_out, parse_time(fn_out[1].text))
    /\ UNCHANGED <<pc, fn_in, pipeline_vars>>

NextTime == ParseTimeFirst \/ ParseTimeAgain

SpecTime == InitTime /\ [][NextTime]_vars

InitDate ==
    /\ Idle
    /\ pc = "date"
    /\ fn_in \in DateTexts
    /\ fn_out = <<>>

ParseDateCall ==
    /\ pc = "date"
    /\ fn_out = <<>>
    /\ fn_out' = <<parse_date(fn_in)>>
    /\ UNCHANGED <<pc, fn_in, pipeline_vars>>

NextDate == ParseDateCall

SpecDate == InitDate /\ [][NextDate]_vars

----------------------------------------------------------------------------
(* Claims about parse_time (under SpecTime)                                *)

\* the text between the first and the last non-whitespace character
Trimmed(t) ==
    LET keep == {i \in 1..Len(t) : t[i] \notin Whitespace}
    IN  IF keep = {} THEN <<>>
        ELSE SubSeq(t, CHOOSE i \in keep : \A j \in keep : i <= j,
                       CHOOSE i \in keep : \A j \in keep : i >= j)

WithoutSpaces(t) == SelectSeq(t, LAMBDA c : c # " ")

\* exactly one character stands before the first colon of s
OneCharHour(s) == Len(s) >= 2 /\ s[1] # ":" /\ s[2] = ":"

\* what the Time Normalizer is said to return for t, s being t "after
\* whitespace stripping"
TimeExpected(t, s) ==
    IF WithoutWhitespace(t) = <<>> THEN None
    ELSE IF OneCharHour(s) THEN Some(<<"0">> \o s)
    ELSE Some(s)

TimeIdempotent == Len(fn_out) = 2 => fn_out[2] = fn_out[1]

\* C8 (as stated): parse_time is idempotent and, with all whitespace of the
\* input stripped, pads a one-character hour with a single "0", returns any
\* other non-blank text unchanged apart from that whitespace removal, and
\* returns null for blank input.
C8_AllWhitespaceStripped ==
    pc = "time" /\ fn_out # <<>> =>
        /\ fn_out[1] = TimeExpected(fn_in, WithoutWhitespace(fn_in))
        /\ TimeIdempotent

\* C8 (amended): the same, where whitespace stripping is: leading and
\* trailing whitespace trimmed and every space character removed; any other
\* whitespace inside the text is kept and counts as a character of the hour.
C8_TrimAndRemoveSpaces ==
    pc = "time" /\ fn_out # <<>> =>
        /\ fn_out[1] = TimeExpected(fn_in, WithoutSpaces(Trimmed(fn_in)))
        /\ TimeIdempotent

\* a one-character hour was padded and the result normalized a second time
C8_Witness ==
    /\ pc = "time"
    /\ Len(fn_out) = 2
    /\ OneCharHour(WithoutSpaces(Trimmed(fn_in)))
    /\ Contains(fn_in, " ")
    /\ fn_out[1].text[1] = "0"

----------------------------------------------------------------------------
(* Claims about parse_date (under SpecDate)                                *)

CommaPositions(t) == {i \in 1..Len(t) : t[i] = ","}
FirstComma(t) == CHOOSE i \in CommaPositions(t) : \A j \in CommaPositions(t) : i <= j

\* everything after the first comma
AfterFirstComma(t) ==
    IF CommaPositions(t) = {} THEN t ELSE SubSeq(t, FirstComma(t) + 1, Len(t))

\* what stands between the first comma and the second one (or the end)
BetweenCommas(t) ==
    LET rest == AfterFirstComma(t)
    IN  IF CommaPositions(t) = {} \/ CommaPositions(rest) = {} THEN rest
        ELSE SubSeq(rest, 1, FirstComma(rest) - 1)

Pad2(n) == IF n < 10 THEN <<"0", Digits[n + 1]>>
           ELSE <<Digits[(n \div 10) + 1], Digits[(n % 10) + 1]>>

\* the ways day d is written: "7" or "07", "21"
DayTexts(d) == IF d < 10 THEN {<<Digits[d + 1]>>, Pad2(d)} ELSE {Pad2(d)}

\* seg reads "<abbreviated month m> <day d>"
ReadsAs(seg, m, d) ==
    /\ Len(seg) >= 5
    /\ Lower(SubSeq(seg, 1, 3)) = MonthAbbr[m]
    /\ \E k \in 4..(Len(seg) - 1) :
        /\ \A i \in 4..k : seg[i] \in Whitespace
        /\ SubSeq(seg, k + 1, Len(seg)) \in DayTexts(d)

\* the result stated for the text seg that is interpreted
DateExpected(seg) ==
    LET months == {m \in 1..12 : Len(seg) >= 3 /\ Lower(SubSeq(seg, 1, 3)) = MonthAbbr[m]}
        dates  == {md \in UNION {{<<m, d>> : d \in 1..DaysInMonth[m]} : m \in months} :
                      ReadsAs(seg, md[1], md[2])}
    IN  IF dates = {} THEN None
        ELSE LET md == CHOOSE md \in dates : TRUE
             IN  Some(<<"2", "0", "2", "5", "-">> \o Pad2(md[1]) \o <<"-">> \o Pad2(md[2]))

\* C9 (as stated): when the text contains a comma, everything up to and
\* including the first comma is discarded and the whole remainder, trimmed,
\* is read as "<abbreviated month> <day>" of 2025; the result is 2025-MM-DD
\* for a valid month and day and null for anything else.
C9_WholeRemainderParsed ==
    pc = "date" /\ fn_out # <<>> =>
        fn_out[1] = DateExpected(Trimmed(AfterFirstComma(fn_in)))

\* C9 (amended): when the text contains a comma, only what stands between
\* the first comma and the second one (or the end of the text) is read,
\* trimmed, as "<abbreviated month> <day>" of 2025; whatever follows a
\* second comma is ignored. The result is 2025-MM-DD for a valid month and
\* day and null (never an exception) for anything else.
C9_SegmentAfterFirstCommaParsed ==
    pc = "date" /\ fn_out # <<>> =>
        fn_out[1] = DateExpected(Trimmed(BetweenCommas(Trimmed(fn_in))))

\* a date was read from between two commas
C9_Witness ==
    /\ pc = "date"
    /\ fn_out # <<>>
    /\ fn_out[1].some
    /\ Cardinality(CommaPositions(fn_in)) >= 2

====
